---- MODULE Spec2Model ----
(***************************************************************************)
(* Snake - Deluxe (src/Sake_game.py): the Game object, its methods and the *)
(* main loop, as a state machine.  Positions are pixel coordinates <<x,y>> *)
(* as in the source; times are pygame ticks in milliseconds; the step      *)
(* accumulator is an exact fraction of a second <<num, den>>.              *)
(***************************************************************************)
EXTENDS Integers, Sequences, FiniteSets, TLC

\* ------------------------------------------------------------ constants
WIDTH == 600
HEIGHT == 400
GRID == 20
FPS_BASE == 12
MAX_FPS == 30
LIVES_START == 3
LEVEL_UP_EVERY == 5
POWERUP_DURATION == 4500
POWERUP_TTL == 9000
SPECIAL_FOOD_EVERY == 10
SPECIAL_FOOD_TTL == 6000
SPECIAL_FOOD_VALUE == 5
NUM_STATIC_OBSTACLES == 6
NUM_MOVING_OBSTACLES == 2

\* ------------------------------------------------------------ bounds
\* frames (CLOCK.tick calls) a behaviour may take
MaxFrames == 6
\* the length of one ordinary frame, in ms
FrameMs == 90
\* a long wait on the title screen, in ms, and the frames it stands for
TitleWaitMs == 10100
TitleFrames == 3
\* power-ups lying on the field at once
MaxPowerups == 1
\* failed draws of the spawn sampler that are followed
MaxAttempts == 3
\* segments of the snakes check_collisions() is applied to
MaxSnakeLen == 5
\* levels current_fps() is asked at
MaxLevel == 20
\* power-ups on the field when pickup_powerup() is called
MaxOnField == 2
\* score up to which the active-effect specification applies power-ups
MaxEffectScore == 6

\* ------------------------------------------------------------ helpers
Range(s) == {s[i] : i \in 1..Len(s)}

Max(a, b) == IF a >= b THEN a ELSE b

Min(a, b) == IF a <= b THEN a ELSE b

RECURSIVE GCD(_, _)
GCD(a, b) == IF b = 0 THEN a ELSE GCD(b, a % b)

\* exact fractions <<num, den>>, den > 0, in lowest terms
RatNorm(n, d) == LET g == GCD(IF n < 0 THEN -n ELSE n, d)
                 IN  IF n = 0 THEN <<0, 1>> ELSE <<n \div g, d \div g>>

RatAdd(a, b) == LET l == (a[2] \div GCD(a[2], b[2])) * b[2]
                IN  RatNorm(a[1] * (l \div a[2]) + b[1] * (l \div b[2]), l)

RatSub(a, b) == RatAdd(a, <<-b[1], b[2]>>)

RatGE(a, b) == LET l == (a[2] \div GCD(a[2], b[2])) * b[2]
               IN  a[1] * (l \div a[2]) >= b[1] * (l \div b[2])

\* pygame.Rect of one grid cell at pos
CellRect(pos) == [x |-> pos[1], y |-> pos[2], w |-> GRID, h |-> GRID]

\* pygame.Rect.colliderect: the two rectangles overlap in a non-empty area
colliderect(a, b) ==
    /\ a.x < b.x + b.w
    /\ a.y < b.y + b.h
    /\ b.x < a.x + a.w
    /\ b.y < a.y + a.h

\* the rectangle of a moving obstacle
MobRect(m) == [x |-> m.x, y |-> m.y, w |-> m.w, h |-> GRID]

\* absent values
NoCell == <<-1, -1>>

NoPower == [kind |-> "none", end |-> 0]

UpDir == <<0, -GRID>>

Opposite(d) == <<-d[1], -d[2]>>

\* ------------------------------------------------------------ random draws
\* the cells of the field grid_pos() samples from
GridCells == {<<cx * GRID, cy * GRID>> : cx \in 0..(WIDTH \div GRID - 1),
                                         cy \in 0..(HEIGHT \div GRID - 1)}

\* grid_pos(): the draws of the sampler that the model follows (three cells next
\* to the spawn point of the snake and one far from it)
grid_pos == {<<300, 180>>, <<280, 200>>, <<260, 180>>, <<500, 200>>} \cap GridCells

\* make_obstacles(), static part: the position rule of one obstacle
StaticOk(r) ==
    /\ r.x \in {cx * GRID : cx \in 1..(WIDTH \div GRID - 2)}
    /\ r.y \in {cy * GRID : cy \in 2..(HEIGHT \div GRID - 2)}
    /\ ~(WIDTH \div 2 - 3 * GRID <= r.x /\ r.x <= WIDTH \div 2 + 3 * GRID)
    /\ r.w \in {GRID * 2, GRID * 3}
    /\ r.h \in {GRID, GRID * 2}

\* make_obstacles(), static part: the layouts the model follows
StaticLayouts ==
    LET far == << [x |-> 20,  y |-> 60,  w |-> 40, h |-> 20],
                  [x |-> 500, y |-> 60,  w |-> 60, h |-> 20],
                  [x |-> 20,  y |-> 340, w |-> 40, h |-> 40],
                  [x |-> 500, y |-> 340, w |-> 40, h |-> 20],
                  [x |-> 400, y |-> 100, w |-> 40, h |-> 20] >>
        all == { <<[x |-> 220, y |-> 180, w |-> 60, h |-> 40]>> \o far }
    IN  { l \in all :
            /\ Len(l) = NUM_STATIC_OBSTACLES
            /\ \A i \in 1..Len(l) : StaticOk(l[i])
            /\ \A i, j \in 1..Len(l) : i # j => <<l[i].x, l[i].y>> # <<l[j].x, l[j].y>> }

\* make_obstacles(), moving part: one obstacle starts at x = GRID
MovingOk(m) ==
    /\ m.x = GRID
    /\ m.y \in {cy * GRID : cy \in 3..(HEIGHT \div GRID - 2)}
    /\ m.w \in {GRID * 2, GRID * 3}
    /\ m.dx \in {2, 3}

\* make_obstacles(), moving part: the layouts the model follows
MovingLayouts ==
    LET all == { << [x |-> GRID, y |-> 100, w |-> 60, dx |-> 3],
                    [x |-> GRID, y |-> 300, w |-> 40, dx |-> 2] >> }
    IN  { l \in all : Len(l) = NUM_MOVING_OBSTACLES /\ \A i \in 1..Len(l) : MovingOk(l[i]) }

make_obstacles == StaticLayouts \X MovingLayouts

\* random.choice(POWER_TYPES)
POWER_TYPES == {"speed", "slow", "bonus"}

\* ------------------------------------------------------------ Game
SpawnSnake == << <<WIDTH \div 2, HEIGHT \div 2 + GRID>>, <<WIDTH \div 2, HEIGHT \div 2>> >>

HeadOf(g) == g.snake[Len(g.snake)]

\* spawn_food(): the test that ends the loop of the sampler with `return pos`
spawn_ok(pos, snake, statics, movers) ==
    /\ pos \notin Range(snake)
    /\ ~(\E i \in 1..Len(statics) : colliderect(statics[i], CellRect(pos)))
    /\ ~(\E i \in 1..Len(movers) : colliderect(MobRect(movers[i]), CellRect(pos)))
    /\ pos[2] > GRID * 2

\* spawn_food(): the cells the rejection sampler can return
spawn_food(snake, statics, movers) ==
    { pos \in grid_pos : spawn_ok(pos, snake, statics, movers) }

\* Game.__init__ / reset_all at time t: food is drawn before the obstacles exist
Game(t, food, obs) ==
    [ score |-> 0, high |-> 0, level |-> 1, lives |-> LIVES_START,
      snake |-> SpawnSnake, dir |-> UpDir, next_dir |-> UpDir,
      food |-> food,
      special_food |-> NoCell, special_spawned_at |-> 0,
      powerups |-> <<>>, active_power |-> NoPower,
      static_obstacles |-> obs[1], moving_obstacles |-> obs[2],
      start_time |-> t, last_special_check |-> t,
      paused |-> FALSE ]

\* the games a construction at time t can produce
NewGames(t) == { Game(t, food, obs) : food \in spawn_food(SpawnSnake, <<>>, <<>>),
                                       obs \in make_obstacles }

\* reset_after_hit() that forgets to reset the buffered direction
reset_after_hit_KeepBuffer(g) ==
    [g EXCEPT !.lives = g.lives - 1,
              !.snake = SpawnSnake,
              !.dir = UpDir,
              !.active_power = NoPower]

\* reset_after_hit() that respawns the head cell only
reset_after_hit_HeadOnly(g) ==
    [g EXCEPT !.lives = g.lives - 1,
              !.snake = <<SpawnSnake[2]>>,
              !.dir = UpDir,
              !.next_dir = UpDir,
              !.active_power = NoPower]

reset_after_hit(g) ==
    [g EXCEPT !.lives = g.lives - 1,
              !.snake = SpawnSnake,
              !.dir = UpDir,
              !.next_dir = UpDir,
              !.active_power = NoPower]

update_level(g) == [g EXCEPT !.level = 1 + g.score \div LEVEL_UP_EVERY]

\* apply_power() that lets an effect that is still running run on
apply_power_KeepsRunning(g, kind, t) ==
    [g EXCEPT !.score = IF kind = "bonus" THEN g.score + 3 ELSE g.score,
              !.active_power = IF g.active_power # NoPower /\ g.active_power.end >= t
                               THEN g.active_power
                               ELSE [kind |-> kind, end |-> t + POWERUP_DURATION]]

apply_power(g, kind, t) ==
    [g EXCEPT !.score = IF kind = "bonus" THEN g.score + 3 ELSE g.score,
              !.active_power = [kind |-> kind, end |-> t + POWERUP_DURATION]]

\* power_multiplier() that lets the effect end one tick early
power_multiplier_EndsEarly(g, t) ==
    IF g.active_power = NoPower
    THEN [ret |-> 10, game |-> g]
    ELSE IF t >= g.active_power.end
         THEN [ret |-> 10, game |-> [g EXCEPT !.active_power = NoPower]]
         ELSE [ret |-> IF g.active_power.kind = "speed" THEN 14
                       ELSE IF g.active_power.kind = "slow" THEN 6 ELSE 10,
               game |-> g]

\* power_multiplier(): the multiplier in tenths (14 = 1.4, 6 = 0.6, 10 = 1.0)
power_multiplier(g, t) ==
    IF g.active_power = NoPower
    THEN [ret |-> 10, game |-> g]
    ELSE IF t > g.active_power.end
         THEN [ret |-> 10, game |-> [g EXCEPT !.active_power = NoPower]]
         ELSE [ret |-> IF g.active_power.kind = "speed" THEN 14
                       ELSE IF g.active_power.kind = "slow" THEN 6 ELSE 10,
               game |-> g]

\* current_fps() that clamps the level rate first and multiplies afterwards
current_fps_ClampFirst(g, t) ==
    LET pm == power_multiplier(g, t)
        base2 == 2 * FPS_BASE + (g.level - 1) * 3
    IN  [ret |-> (Max(2 * 6, Min(2 * MAX_FPS, base2)) * pm.ret) \div 20, game |-> pm.game]

\* current_fps(): base = 12 + (level-1)*1.5 is kept in halves, the multiplier
\* in tenths; int() truncates the product
current_fps(g, t) ==
    LET pm == power_multiplier(g, t)
        base2 == 2 * FPS_BASE + (g.level - 1) * 3
    IN  [ret |-> Max(6, Min(MAX_FPS, (base2 * pm.ret) \div 20)), game |-> pm.game]

\* handle_input() without the test of the current axis of motion
handle_input_NoAxisTest(g, key) ==
    IF key = "up" THEN [g EXCEPT !.next_dir = <<0, -GRID>>]
    ELSE IF key = "down" THEN [g EXCEPT !.next_dir = <<0, GRID>>]
    ELSE IF key = "left" THEN [g EXCEPT !.next_dir = <<-GRID, 0>>]
    ELSE IF key = "right" THEN [g EXCEPT !.next_dir = <<GRID, 0>>]
    ELSE IF key = "p" THEN [g EXCEPT !.paused = ~g.paused]
    ELSE g

\* handle_input(event) for a KEYDOWN of key
handle_input(g, key) ==
    IF key = "up" /\ g.dir[2] = 0 THEN [g EXCEPT !.next_dir = <<0, -GRID>>]
    ELSE IF key = "down" /\ g.dir[2] = 0 THEN [g EXCEPT !.next_dir = <<0, GRID>>]
    ELSE IF key = "left" /\ g.dir[1] = 0 THEN [g EXCEPT !.next_dir = <<-GRID, 0>>]
    ELSE IF key = "right" /\ g.dir[1] = 0 THEN [g EXCEPT !.next_dir = <<GRID, 0>>]
    ELSE IF key = "p" THEN [g EXCEPT !.paused = ~g.paused]
    ELSE g

Keys == {"up", "down", "left", "right", "p"}

move_snake(g) ==
    LET d == g.next_dir
        h == HeadOf(g)
    IN  [g EXCEPT !.dir = d, !.snake = Append(g.snake, <<h[1] + d[1], h[2] + d[2]>>)]

\* trim_tail() that drops the tail even when the snake grew
trim_tail_AlwaysPop(g, grew) == [g EXCEPT !.snake = Tail(g.snake)]

trim_tail(g, grew) == IF ~grew THEN [g EXCEPT !.snake = Tail(g.snake)] ELSE g

\* check_collisions() without the test of the static obstacles
check_collisions_NoStatic(g) ==
    LET head == HeadOf(g)
        rect_head == CellRect(head)
    IN  \/ head[1] < 0 \/ head[1] >= WIDTH \/ head[2] < GRID * 2 \/ head[2] >= HEIGHT
        \/ head \in Range(SubSeq(g.snake, 1, Len(g.snake) - 1))
        \/ \E i \in 1..Len(g.moving_obstacles) : colliderect(rect_head, MobRect(g.moving_obstacles[i]))

\* check_collisions() that takes the window, not the playable field, as the
\* upper bound: the scoreboard band is not a wall
check_collisions_NoBand(g) ==
    LET head == HeadOf(g)
        rect_head == CellRect(head)
    IN  \/ head[1] < 0 \/ head[1] >= WIDTH \/ head[2] < 0 \/ head[2] >= HEIGHT
        \/ head \in Range(SubSeq(g.snake, 1, Len(g.snake) - 1))
        \/ \E i \in 1..Len(g.static_obstacles) : colliderect(rect_head, g.static_obstacles[i])
        \/ \E i \in 1..Len(g.moving_obstacles) : colliderect(rect_head, MobRect(g.moving_obstacles[i]))

check_collisions(g) ==
    LET head == HeadOf(g)
        rect_head == CellRect(head)
    IN  \/ head[1] < 0 \/ head[1] >= WIDTH \/ head[2] < GRID * 2 \/ head[2] >= HEIGHT
        \/ head \in Range(SubSeq(g.snake, 1, Len(g.snake) - 1))
        \/ \E i \in 1..Len(g.static_obstacles) : colliderect(rect_head, g.static_obstacles[i])
        \/ \E i \in 1..Len(g.moving_obstacles) : colliderect(rect_head, MobRect(g.moving_obstacles[i]))

\* a draw of maybe_spawn_powerup(): whether random() < POWERUP_CHANCE, the kind
NoRoll == [spawn |-> FALSE, kind |-> "none"]

PowerRolls == {NoRoll} \cup {[spawn |-> TRUE, kind |-> k] : k \in POWER_TYPES}

maybe_spawn_powerup(g, roll, pos, t) ==
    IF roll.spawn
    THEN [g EXCEPT !.powerups = Append(g.powerups, [kind |-> roll.kind, pos |-> pos, spawn_time |-> t])]
    ELSE g

Ate(g) == HeadOf(g) = g.food

\* eat_food() when the head is on the food: nf is the respawned food, roll and
\* pos the power-up draw
eat_food(g, nf, roll, pos, t) ==
    LET g1 == update_level([g EXCEPT !.score = g.score + 1])
        g2 == [g1 EXCEPT !.food = nf]
    IN  maybe_spawn_powerup(g2, roll, pos, t)

AteSpecial(g) == g.special_food # NoCell /\ HeadOf(g) = g.special_food

eat_special_food(g) ==
    IF AteSpecial(g)
    THEN [update_level([g EXCEPT !.score = g.score + SPECIAL_FOOD_VALUE]) EXCEPT !.special_food = NoCell]
    ELSE g

RemoveAt(s, i) == SubSeq(s, 1, i - 1) \o SubSeq(s, i + 1, Len(s))

\* pickup_powerup(): the first power-up under the head is applied and removed
pickup_powerup(g, t) ==
    LET hits == {i \in 1..Len(g.powerups) : colliderect(CellRect(HeadOf(g)), CellRect(g.powerups[i].pos))}
    IN  IF hits = {} THEN g
        ELSE LET i == CHOOSE k \in hits : \A j \in hits : k <= j
             IN  [apply_power(g, g.powerups[i].kind, t) EXCEPT !.powerups = RemoveAt(g.powerups, i)]

\* MovingObstacle.update()
MovingObstacle_update(m) ==
    LET x1 == m.x + m.dx
    IN  [m EXCEPT !.x = x1, !.dx = IF x1 + m.w >= WIDTH \/ x1 <= 0 THEN -m.dx ELSE m.dx]

\* PowerUp.alive()
alive(p, t) == t - p.spawn_time < POWERUP_TTL

alive_powerups(s, t) == SelectSeq(s, LAMBDA p : alive(p, t))

\* the spawn attempt due already when exactly SPECIAL_FOOD_EVERY seconds passed
SpecialDue_AtLeast(g, t) == g.special_food = NoCell /\ t - g.last_special_check >= SPECIAL_FOOD_EVERY * 1000

\* the special-food spawn attempt of update() is due
SpecialDue(g, t) == g.special_food = NoCell /\ t - g.last_special_check > SPECIAL_FOOD_EVERY * 1000

\* Game.update(dt) at time t: coin is random() < 0.5, pos the cell spawn_food() returns
update(g, t, coin, pos) ==
    LET g1 == [g EXCEPT !.moving_obstacles =
                   [i \in 1..Len(g.moving_obstacles) |-> MovingObstacle_update(g.moving_obstacles[i])]]
        g2 == IF SpecialDue(g1, t)
              THEN IF coin
                   THEN [g1 EXCEPT !.last_special_check = t, !.special_food = pos, !.special_spawned_at = t]
                   ELSE [g1 EXCEPT !.last_special_check = t]
              ELSE g1
        g3 == IF g2.special_food # NoCell /\ t - g2.special_spawned_at > SPECIAL_FOOD_TTL
              THEN [g2 EXCEPT !.special_food = NoCell]
              ELSE g2
    IN  [g3 EXCEPT !.powerups = alive_powerups(g3.powerups, t)]

\* the game-over test off by one
GameLost_OneLeft(g) == g.lives <= 1

\* main(): the game is over when the lives are used up
GameLost(g) == g.lives <= 0

\* main(): the high score the scoreboard shows while playing
shown_high(g) == Max(g.high, g.score)

\* ------------------------------------------------------------ state
VARIABLES
    game,         \* the Game object of main()
    running,      \* main(): running
    step_timer,   \* main(): step_timer, seconds as <<num, den>>
    target_step,  \* main(): target_step, seconds as <<num, den>>
    now,          \* pygame.time.get_ticks()
    pc,           \* the position of main()
    frames,       \* frames (CLOCK.tick calls) used so far
    hist          \* what the current step and the session did so far

vars == <<game, running, step_timer, target_step, now, pc, frames, hist>>

NoQuery == [asked |-> FALSE, before |-> NoPower, t |-> 0, ret |-> 0]

\* the history of a game that has not made a step
NewHist(session_max) ==
    [ len0 |-> 0, snake0 |-> <<>>, head |-> NoCell,
      ate |-> FALSE, ate_special |-> FALSE, hit |-> FALSE,
      last_committed |-> <<0, 0>>, prev_committed |-> <<0, 0>>, reset_since |-> FALSE,
      session_max |-> session_max, query |-> NoQuery,
      attempts |-> 0, fps |-> 0, flipped |-> <<>> ]

Init ==
    /\ game \in NewGames(0)
    /\ running = TRUE
    /\ step_timer = <<0, 1>>
    /\ target_step = <<1, FPS_BASE>>
    /\ now = 0
    /\ pc = "start"
    /\ frames = 0
    /\ hist = NewHist(0)

\* ------------------------------------------------------------ start_screen
StartWait ==
    /\ pc = "start"
    /\ now = 0
    /\ frames + TitleFrames <= MaxFrames
    /\ now' = now + TitleWaitMs
    /\ frames' = frames + TitleFrames
    /\ UNCHANGED <<game, running, step_timer, target_step, pc, hist>>

StartKey ==
    /\ pc = "start"
    /\ pc' = "tick"
    /\ UNCHANGED <<game, running, step_timer, target_step, now, frames, hist>>

StartClose ==
    /\ pc = "start"
    /\ pc' = "done"
    /\ UNCHANGED <<game, running, step_timer, target_step, now, frames, hist>>

\* ------------------------------------------------------------ main loop
\* dt = CLOCK.tick(60) / 1000.0; step_timer += dt
Tick ==
    /\ pc = "tick"
    /\ running
    /\ frames < MaxFrames
    /\ now' = now + FrameMs
    /\ step_timer' = RatAdd(step_timer, RatNorm(FrameMs, 1000))
    /\ frames' = frames + 1
    /\ pc' = "events"
    /\ UNCHANGED <<game, running, target_step, hist>>

\* while running: fails, pygame.quit()
LoopEnd ==
    /\ pc = "tick"
    /\ ~running
    /\ pc' = "done"
    /\ UNCHANGED <<game, running, step_timer, target_step, now, frames, hist>>

KeyDown(key) ==
    /\ pc = "events"
    /\ game' = handle_input(game, key)
    /\ UNCHANGED <<running, step_timer, target_step, now, pc, frames, hist>>

QuitEvent ==
    /\ pc = "events"
    /\ running
    /\ running' = FALSE
    /\ UNCHANGED <<game, step_timer, target_step, now, pc, frames, hist>>

\* the events of the frame are handled: the pause branch, or the step target
EventsDone ==
    /\ pc = "events"
    /\ IF game.paused
       THEN /\ pc' = "tick"
            /\ UNCHANGED <<game, target_step>>
       ELSE LET f == current_fps(game, now)
            IN  /\ game' = f.game
                /\ target_step' = <<1, f.ret>>
                /\ pc' = "loop"
    /\ UNCHANGED <<running, step_timer, now, frames, hist>>

\* while step_timer >= target_step: step_timer -= target_step; move_snake()
StepMove ==
    /\ pc = "loop"
    /\ RatGE(step_timer, target_step)
    /\ step_timer' = RatSub(step_timer, target_step)
    /\ game' = move_snake(game)
    /\ hist' = [hist EXCEPT !.len0 = Len(game.snake), !.snake0 = game.snake,
                            !.head = HeadOf(move_snake(game)),
                            !.ate = FALSE, !.ate_special = FALSE, !.hit = FALSE,
                            !.prev_committed = hist.last_committed,
                            !.last_committed = move_snake(game).dir,
                            !.reset_since = FALSE]
    /\ pc' = "eat"
    /\ UNCHANGED <<running, target_step, now, frames>>

\* eat_food(), eat_special_food(), pickup_powerup()
StepEat ==
    /\ pc = "eat"
    /\ \E nf \in IF Ate(game) THEN spawn_food(game.snake, game.static_obstacles, game.moving_obstacles)
                 ELSE {NoCell},
          roll \in IF Ate(game) /\ Len(game.powerups) < MaxPowerups THEN PowerRolls ELSE {NoRoll} :
         \E pos \in IF roll.spawn THEN spawn_food(game.snake, game.static_obstacles, game.moving_obstacles)
                    ELSE {NoCell} :
            LET g1 == IF Ate(game) THEN eat_food(game, nf, roll, pos, now) ELSE game
                g2 == eat_special_food(g1)
                g3 == pickup_powerup(g2, now)
            IN  /\ game' = g3
                /\ hist' = [hist EXCEPT !.ate = Ate(game), !.ate_special = AteSpecial(g1),
                                        !.session_max = Max(hist.session_max, g3.score)]
    /\ pc' = "trim"
    /\ UNCHANGED <<running, step_timer, target_step, now, frames>>

StepTrim ==
    /\ pc = "trim"
    /\ game' = trim_tail(game, hist.ate \/ hist.ate_special)
    /\ pc' = "collide"
    /\ UNCHANGED <<running, step_timer, target_step, now, frames, hist>>

\* if check_collisions(): reset_after_hit(); if lives <= 0: high = max(high, score)
StepCollide ==
    /\ pc = "collide"
    /\ IF check_collisions(game)
       THEN LET g1 == reset_after_hit(game)
            IN  /\ hist' = [hist EXCEPT !.hit = TRUE, !.reset_since = TRUE]
                /\ IF GameLost(g1)
                   THEN /\ game' = [g1 EXCEPT !.high = Max(g1.high, g1.score)]
                        /\ pc' = "gameover"
                   ELSE /\ game' = g1
                        /\ pc' = "update"
       ELSE /\ pc' = "update"
            /\ UNCHANGED <<game, hist>>
    /\ UNCHANGED <<running, step_timer, target_step, now, frames>>

\* the moving obstacles after the first loop of update()
Moved(g) == [i \in 1..Len(g.moving_obstacles) |-> MovingObstacle_update(g.moving_obstacles[i])]

\* game.update(target_step)
StepUpdate ==
    /\ pc = "update"
    /\ \E coin \in IF SpecialDue(game, now) THEN BOOLEAN ELSE {FALSE} :
         \E pos \in IF coin THEN spawn_food(game.snake, game.static_obstacles, Moved(game))
                    ELSE {NoCell} :
            game' = update(game, now, coin, pos)
    /\ hist' = [hist EXCEPT !.len0 = 0, !.snake0 = <<>>, !.head = NoCell,
                            !.ate = FALSE, !.ate_special = FALSE, !.hit = FALSE]
    /\ pc' = "loop"
    /\ UNCHANGED <<running, step_timer, target_step, now, frames>>

\* the step loop ends; the frame is rendered
LoopExit ==
    /\ pc = "loop"
    /\ ~RatGE(step_timer, target_step)
    /\ pc' = "tick"
    /\ UNCHANGED <<game, running, step_timer, target_step, now, frames, hist>>

\* ------------------------------------------------------------ game_over_screen
\* a frame of the game-over screen (it may take one frame beyond MaxFrames)
GameOverWait ==
    /\ pc = "gameover"
    /\ frames <= MaxFrames
    /\ now' = now + FrameMs
    /\ frames' = frames + 1
    /\ UNCHANGED <<game, running, step_timer, target_step, pc, hist>>

\* K_r: game = Game(); step_timer = 0; continue
GameOverRestart ==
    /\ pc = "gameover"
    /\ game' \in NewGames(now)
    /\ step_timer' = <<0, 1>>
    /\ hist' = NewHist(hist.session_max)
    /\ pc' = "loop"
    /\ UNCHANGED <<running, target_step, now, frames>>

\* K_q / K_ESCAPE: running = False; break
GameOverQuit ==
    /\ pc = "gameover"
    /\ running' = FALSE
    /\ pc' = "tick"
    /\ UNCHANGED <<game, step_timer, target_step, now, frames, hist>>

\* QUIT: pygame.quit(); raise SystemExit
GameOverClose ==
    /\ pc = "gameover"
    /\ pc' = "done"
    /\ UNCHANGED <<game, running, step_timer, target_step, now, frames, hist>>

Next ==
    \/ StartWait
    \/ StartKey
    \/ StartClose
    \/ Tick
    \/ LoopEnd
    \/ \E key \in Keys : KeyDown(key)
    \/ QuitEvent
    \/ EventsDone
    \/ StepMove
    \/ StepEat
    \/ StepTrim
    \/ StepCollide
    \/ StepUpdate
    \/ LoopExit
    \/ GameOverWait
    \/ GameOverRestart
    \/ GameOverQuit
    \/ GameOverClose

Spec == Init /\ [][Next]_vars

\* ------------------------------------------------------------ active effect
\* apply_power() and power_multiplier() driven directly: power-ups of every
\* kind applied and the multiplier queried at chosen times
EffectWaits == {1, POWERUP_DURATION - 2}

InitEffect ==
    /\ game \in NewGames(0)
    /\ running = TRUE
    /\ step_timer = <<0, 1>>
    /\ target_step = <<1, FPS_BASE>>
    /\ now = 0
    /\ pc = "effect"
    /\ frames = 0
    /\ hist = NewHist(0)

EffectApply(kind) ==
    /\ pc = "effect"
    /\ kind = "bonus" => game.score + 3 <= MaxEffectScore
    /\ game' = apply_power(game, kind, now)
    /\ hist' = [hist EXCEPT !.query = NoQuery]
    /\ UNCHANGED <<running, step_timer, target_step, now, pc, frames>>

EffectWait(d) ==
    /\ pc = "effect"
    /\ frames < MaxFrames
    /\ now' = now + d
    /\ frames' = frames + 1
    /\ hist' = [hist EXCEPT !.query = NoQuery]
    /\ UNCHANGED <<game, running, step_timer, target_step, pc>>

EffectQuery ==
    /\ pc = "effect"
    /\ LET r == power_multiplier(game, now)
       IN  /\ game' = r.game
           /\ hist' = [hist EXCEPT !.query = [asked |-> TRUE, before |-> game.active_power,
                                              t |-> now, ret |-> r.ret]]
    /\ UNCHANGED <<running, step_timer, target_step, now, pc, frames>>

NextEffect ==
    \/ \E kind \in POWER_TYPES : EffectApply(kind)
    \/ \E d \in EffectWaits : EffectWait(d)
    \/ EffectQuery

SpecEffect == InitEffect /\ [][NextEffect]_vars

\* ------------------------------------------------------------ spawn sampler
\* the loop of spawn_food() followed draw by draw, called on fields that
\* collision-free steps of the snake produce
SpawnDraws == (grid_pos \cup {<<300, 200>>, <<300, 40>>, <<40, 100>>}) \cap GridCells

InitSpawn ==
    /\ game \in NewGames(0)
    /\ running = TRUE
    /\ step_timer = <<0, 1>>
    /\ target_step = <<1, FPS_BASE>>
    /\ now = 0
    /\ pc = "field"
    /\ frames = 0
    /\ hist = NewHist(0)

\* one step of the snake that hits nothing, and the obstacles' move
SpawnStep(key) ==
    /\ pc = "field"
    /\ frames < MaxFrames
    /\ LET g1 == trim_tail(move_snake(handle_input(game, key)), FALSE)
       IN  /\ ~check_collisions(g1)
           /\ game' = [g1 EXCEPT !.moving_obstacles = Moved(g1)]
    /\ frames' = frames + 1
    /\ UNCHANGED <<running, step_timer, target_step, now, pc, hist>>

\* spawn_food() is called
SpawnCall ==
    /\ pc = "field"
    /\ pc' = "sampling"
    /\ hist' = [hist EXCEPT !.attempts = 0]
    /\ UNCHANGED <<game, running, step_timer, target_step, now, frames>>

\* one pass of `while True`: pos = grid_pos(); return pos if it is free
SpawnAttempt(pos) ==
    /\ pc = "sampling"
    /\ hist.attempts < MaxAttempts
    /\ IF spawn_ok(pos, game.snake, game.static_obstacles, game.moving_obstacles)
       THEN /\ game' = [game EXCEPT !.food = pos]
            /\ pc' = "field"
            /\ UNCHANGED hist
       ELSE /\ hist' = [hist EXCEPT !.attempts = hist.attempts + 1]
            /\ UNCHANGED <<game, pc>>
    /\ UNCHANGED <<running, step_timer, target_step, now, frames>>

NextSpawn ==
    \/ \E key \in Keys \ {"p"} : SpawnStep(key)
    \/ SpawnCall
    \/ \E pos \in SpawnDraws : SpawnAttempt(pos)

SpecSpawn == InitSpawn /\ [][NextSpawn]_vars

\* ------------------------------------------------------------ check_collisions
\* check_collisions() applied to snakes as they stand after move_snake() and
\* trim_tail(): the body on free cells of the field, the head one move further
Dirs == {<<0, -GRID>>, <<0, GRID>>, <<-GRID, 0>>, <<GRID, 0>>}

\* the cells the tails of these snakes lie on
Anchors == {<<0, 40>>, <<580, 380>>, <<300, 200>>, <<280, 200>>, <<100, 120>>} \cap GridCells

\* the paths of n cells from an anchor, none turning back on the spot
RECURSIVE SnakesOf(_)
SnakesOf(n) ==
    IF n = 1 THEN {<<a>> : a \in Anchors}
    ELSE LET longer == { Append(s, <<s[Len(s)][1] + d[1], s[Len(s)][2] + d[2]>>) :
                            s \in SnakesOf(n - 1), d \in Dirs }
         IN  { s \in longer : Len(s) = 2 \/ s[Len(s)] # s[Len(s) - 2] }

\* updates the moving obstacles have made
MoverAges == {0, 8}

RECURSIVE MovedBy(_, _)
MovedBy(m, n) == IF n = 0 THEN m ELSE MovedBy(MovingObstacle_update(m), n - 1)

\* a body cell: it passed check_collisions() when it was the head
BodyCellOk(g, c) ==
    /\ c \in GridCells
    /\ c[2] >= GRID * 2
    /\ ~(\E i \in 1..Len(g.static_obstacles) : colliderect(CellRect(c), g.static_obstacles[i]))

InitCollide ==
    /\ \E g0 \in NewGames(0), n \in 2..MaxSnakeLen, age \in MoverAges :
         \E s \in SnakesOf(n) :
            /\ \A i \in 1..(Len(s) - 1) : BodyCellOk(g0, s[i])
            /\ game = [g0 EXCEPT !.snake = s,
                                 !.dir = <<s[n][1] - s[n - 1][1], s[n][2] - s[n - 1][2]>>,
                                 !.next_dir = <<s[n][1] - s[n - 1][1], s[n][2] - s[n - 1][2]>>,
                                 !.moving_obstacles = [i \in 1..Len(g0.moving_obstacles) |->
                                                           MovedBy(g0.moving_obstacles[i], age)]]
    /\ running = TRUE
    /\ step_timer = <<0, 1>>
    /\ target_step = <<1, FPS_BASE>>
    /\ now = 0
    /\ pc = "collide_call"
    /\ frames = 0
    /\ hist = NewHist(0)

CollideCheck ==
    /\ pc = "collide_call"
    /\ hist' = [hist EXCEPT !.hit = check_collisions(game)]
    /\ pc' = "collide_ret"
    /\ UNCHANGED <<game, running, step_timer, target_step, now, frames>>

NextCollide == CollideCheck

SpecCollide == InitCollide /\ [][NextCollide]_vars

\* ------------------------------------------------------------ current_fps
\* current_fps() asked at time FpsAskedAt on games of every level up to
\* MaxLevel, without effect and with an effect of each kind, running or run out
FpsAskedAt == POWERUP_DURATION + 500

FpsEffects == {NoPower} \cup { [kind |-> k, end |-> e] :
                                  k \in POWER_TYPES,
                                  e \in {FpsAskedAt - 1, FpsAskedAt, FpsAskedAt - 500 + POWERUP_DURATION} }

InitFps ==
    /\ \E g0 \in NewGames(0), lvl \in 1..MaxLevel, eff \in FpsEffects :
          game = update_level([g0 EXCEPT !.score = (lvl - 1) * LEVEL_UP_EVERY,
                                         !.active_power = eff])
    /\ running = TRUE
    /\ step_timer = <<0, 1>>
    /\ target_step = <<1, FPS_BASE>>
    /\ now = FpsAskedAt
    /\ pc = "fps_call"
    /\ frames = 0
    /\ hist = NewHist(0)

FpsAsk ==
    /\ pc = "fps_call"
    /\ LET f == current_fps(game, now)
       IN  /\ game' = f.game
           /\ hist' = [hist EXCEPT !.fps = f.ret]
    /\ pc' = "fps_ret"
    /\ UNCHANGED <<running, step_timer, target_step, now, frames>>

NextFps == FpsAsk

SpecFps == InitFps /\ [][NextFps]_vars

\* ------------------------------------------------------------ pickup_powerup
\* pickup_powerup() called at time PickupAt right after move_snake() brought
\* the head from the spawn cells to (300,180); up to MaxOnField power-ups lie
\* on that cell and on one next to it (spawn_food() does not keep a power-up
\* off the cell of another), with no effect or with one that is still running
PickupAt == 1000

PickupCells == {<<300, 180>>, <<280, 200>>} \cap GridCells

RECURSIVE PowerupLists(_)
PowerupLists(n) ==
    IF n = 0 THEN {<<>>}
    ELSE PowerupLists(n - 1) \cup
         { Append(l, [kind |-> k, pos |-> c, spawn_time |-> 0]) :
              l \in {m \in PowerupLists(n - 1) : Len(m) = n - 1},
              k \in POWER_TYPES, c \in PickupCells }

PickupEffects == {NoPower, [kind |-> "slow", end |-> PickupAt + 1],
                  [kind |-> "speed", end |-> PickupAt + POWERUP_DURATION - 1]}

InitPickup ==
    /\ \E g0 \in NewGames(0), l \in PowerupLists(MaxOnField), eff \in PickupEffects :
          game = move_snake([g0 EXCEPT !.powerups = l, !.active_power = eff])
    /\ running = TRUE
    /\ step_timer = <<0, 1>>
    /\ target_step = <<1, FPS_BASE>>
    /\ now = PickupAt
    /\ pc = "pickup_call"
    /\ frames = 0
    /\ hist = NewHist(0)

PickupCall ==
    /\ pc = "pickup_call"
    /\ game' = pickup_powerup(game, now)
    /\ pc' = "pickup_ret"
    /\ UNCHANGED <<running, step_timer, target_step, now, frames, hist>>

NextPickup == PickupCall

SpecPickup == InitPickup /\ [][NextPickup]_vars

\* ------------------------------------------------------------ special food
\* update() called once per frame, on frames of chosen lengths, and the
\* special food eaten in between
SpecialWaits == {1, SPECIAL_FOOD_TTL, SPECIAL_FOOD_EVERY * 1000}

InitSpecial ==
    /\ game \in NewGames(0)
    /\ running = TRUE
    /\ step_timer = <<0, 1>>
    /\ target_step = <<1, FPS_BASE>>
    /\ now = 0
    /\ pc = "special"
    /\ frames = 0
    /\ hist = NewHist(0)

\* a frame of d ms whose step ends with game.update()
SpecialFrame(d) ==
    /\ pc = "special"
    /\ frames < MaxFrames
    /\ now' = now + d
    /\ \E coin \in IF SpecialDue(game, now') THEN BOOLEAN ELSE {FALSE} :
         \E pos \in IF coin THEN spawn_food(game.snake, game.static_obstacles, Moved(game))
                    ELSE {NoCell} :
            game' = update(game, now', coin, pos)
    /\ frames' = frames + 1
    /\ UNCHANGED <<running, step_timer, target_step, pc, hist>>

\* the snake comes onto the special food from below and eats it
SpecialEat ==
    /\ pc = "special"
    /\ game.special_food # NoCell
    /\ game' = eat_special_food([game EXCEPT !.snake = << <<game.special_food[1], game.special_food[2] + GRID>>,
                                                          game.special_food >>])
    /\ UNCHANGED <<running, step_timer, target_step, now, pc, frames, hist>>

NextSpecial ==
    \/ \E d \in SpecialWaits : SpecialFrame(d)
    \/ SpecialEat

SpecSpecial == InitSpecial /\ [][NextSpecial]_vars

\* ------------------------------------------------------------ moving obstacles
\* MovingObstacle.update() called again and again on the two moving obstacles
\* of a game, both of the same width and speed, for every width and speed
\* make_obstacles() can give them
MoverRows == {100, 300}

MoverPairs ==
    { l \in [1..NUM_MOVING_OBSTACLES -> [x : {GRID}, y : MoverRows, w : {GRID * 2, GRID * 3}, dx : {2, 3}]] :
        /\ \A i \in 1..Len(l) : MovingOk(l[i])
        /\ \A i, j \in 1..Len(l) : i < j => (l[i].y < l[j].y /\ l[i].w = l[j].w /\ l[i].dx = l[j].dx) }

InitMover ==
    /\ \E g0 \in NewGames(0), l \in MoverPairs :
          game = [g0 EXCEPT !.moving_obstacles = l]
    /\ running = TRUE
    /\ step_timer = <<0, 1>>
    /\ target_step = <<1, FPS_BASE>>
    /\ now = 0
    /\ pc = "mover"
    /\ frames = 0
    /\ hist = [NewHist(0) EXCEPT !.flipped = [i \in 1..NUM_MOVING_OBSTACLES |-> FALSE]]

\* for m in self.moving_obstacles: m.update()
MoverUpdate ==
    /\ pc = "mover"
    /\ game' = [game EXCEPT !.moving_obstacles = Moved(game)]
    /\ hist' = [hist EXCEPT !.flipped = [i \in 1..Len(game.moving_obstacles) |->
                                            Moved(game)[i].dx # game.moving_obstacles[i].dx]]
    /\ UNCHANGED <<running, step_timer, target_step, now, pc, frames>>

NextMover == MoverUpdate

SpecMover == InitMover /\ [][NextMover]_vars

\* ------------------------------------------------------------ properties
\* a simulation step starts: the direction is committed and the head appended
StepStarts == pc = "loop" /\ pc' = "eat"

\* the step has handled its collision: the world update or the game-over
\* screen comes next
StepHandled == pc \in {"update", "gameover"} /\ hist.len0 > 0

\* C1: after every operation that changes the score (eat_food,
\* eat_special_food, apply_power with kind bonus) level = 1 + score // LEVEL_UP_EVERY
C1_LevelFollowsScore ==
    [][(pc = "eat" /\ game'.score # game.score)
        => game'.level = 1 + game'.score \div LEVEL_UP_EVERY]_vars

\* C2 as claimed: the direction committed at a step is never the exact
\* opposite of the direction committed at the previous step of the game,
\* life-loss resets in between included
C2_NeverOpposite ==
    [][(StepStarts /\ hist.last_committed # <<0, 0>>)
        => game'.dir # Opposite(hist.last_committed)]_vars

\* C2 as amended: the direction committed at a step is never the exact
\* opposite of the direction committed at the previous step, unless a
\* life-loss reset happened between the two steps
C2_NeverOppositeWithoutReset ==
    [][(StepStarts /\ hist.last_committed # <<0, 0>> /\ ~hist.reset_since)
        => game'.dir # Opposite(hist.last_committed)]_vars

\* C2 witness: a step has committed a turn after an earlier step, with no
\* reset between them
C2_Witness ==
    /\ pc = "eat"
    /\ hist.prev_committed # <<0, 0>>
    /\ hist.last_committed # hist.prev_committed
    /\ game.lives = LIVES_START

\* C3 as claimed: across a step the length grows by exactly 1 iff eat_food or
\* eat_special_food returned true, and is unchanged otherwise, collision
\* steps included
C3_LengthByEating ==
    StepHandled =>
        Len(game.snake) = hist.len0 + (IF hist.ate \/ hist.ate_special THEN 1 ELSE 0)

\* C3 as amended: on a step without a collision the length grows by exactly 1
\* iff eat_food or eat_special_food returned true (by 1 also when both did)
\* and is unchanged otherwise; on a step with a collision the snake is reset
\* to its two spawn cells
C3_LengthByEatingOrReset ==
    StepHandled =>
        Len(game.snake) = IF hist.hit THEN 2
                          ELSE hist.len0 + (IF hist.ate \/ hist.ate_special THEN 1 ELSE 0)

\* C3 witness: a step without a collision on which both foods were eaten and
\* the snake grew by one
C3_Witness ==
    /\ pc = "update"
    /\ hist.ate /\ hist.ate_special /\ ~hist.hit
    /\ Len(game.snake) = hist.len0 + 1

\* C4: a head that moves into a cell the body occupied before the move (the
\* cell the tail is about to leave included) is reported as a collision
C4_BodyCellCollides ==
    (StepHandled /\ hist.head \in Range(hist.snake0)) => hist.hit

\* C5: on a collision with lives > 1 the reset takes one life, puts the snake
\* on its two spawn cells heading up with the buffered direction up, clears
\* the active effect, leaves score, level, obstacles, food, special food and
\* power-ups as they were, and play continues
C5_LifeLossReset ==
    [][(pc = "collide" /\ hist'.hit /\ game.lives > 1) =>
        /\ game'.lives = game.lives - 1
        /\ game'.snake = << <<300, 220>>, <<300, 200>> >>
        /\ game'.dir = <<0, -20>>
        /\ game'.next_dir = <<0, -20>>
        /\ game'.active_power = NoPower
        /\ game'.score = game.score
        /\ game'.level = game.level
        /\ game'.static_obstacles = game.static_obstacles
        /\ game'.moving_obstacles = game.moving_obstacles
        /\ game'.food = game.food
        /\ game'.special_food = game.special_food
        /\ game'.powerups = game.powerups
        /\ game'.paused = game.paused
        /\ running' = running
        /\ pc' = "update"]_vars

\* C5 witness: the first life was lost and the step goes on to the world update
C5_Witness ==
    /\ pc = "update"
    /\ hist.hit
    /\ game.lives = LIVES_START - 1
    /\ game.score > 0

\* C6: the game-over screen is entered exactly on the step whose collision
\* takes the last life and never with lives left; lives stay in
\* 0..LIVES_START; on entering it high = max(previous high, score); nothing
\* of the game moves there until restart or quit
C6_GameOver ==
    /\ [](game.lives \in 0..LIVES_START)
    /\ [](pc = "gameover" => game.lives = 0)
    /\ [][(pc # "gameover" /\ pc' = "gameover") =>
            /\ pc = "collide"
            /\ game.lives = 1
            /\ game'.lives = 0
            /\ game'.high = Max(game.high, game.score)]_vars
    /\ [][(pc = "collide" /\ hist'.hit /\ game.lives = 1) => pc' = "gameover"]_vars
    /\ [][pc = "gameover" =>
            \/ pc' = "gameover" /\ game' = game /\ step_timer' = step_timer
            \/ pc' = "loop" /\ game'.lives = LIVES_START /\ game'.score = 0
                            /\ step_timer' = <<0, 1>>
            \/ pc' = "tick" /\ ~running' /\ game' = game
            \/ pc' = "done" /\ game' = game]_vars
    /\ [][(pc = "tick" /\ ~running) => (pc' = "done" /\ game' = game)]_vars

\* C6 witness: the game-over screen after a game that scored
C6_Witness ==
    /\ pc = "gameover"
    /\ game.lives = 0
    /\ game.score > 0
    /\ game.high = game.score

\* C7: the high score is the maximum score reached so far in the session,
\* earlier games included
C7_HighIsSessionMax == shown_high(game) = hist.session_max

\* C9: the food is on no snake segment, overlaps no static or moving obstacle
\* and is not in the top band
C9_FoodClear ==
    /\ game.food \notin Range(game.snake)
    /\ \A i \in 1..Len(game.static_obstacles) :
           ~colliderect(game.static_obstacles[i], CellRect(game.food))
    /\ \A i \in 1..Len(game.moving_obstacles) :
           ~colliderect(MobRect(game.moving_obstacles[i]), CellRect(game.food))
    /\ game.food[2] >= 2 * GRID

\* C10: while the game is paused no step runs and the step accumulator gains
\* no time
C10_PauseFreezes ==
    [][game.paused => (step_timer' = step_timer /\ game'.snake = game.snake)]_vars

\* the multiplier, in tenths, the claim gives for an effect and a time
ClaimedMultiplier(effect, t) ==
    IF effect = NoPower \/ t > effect.end THEN 10
    ELSE IF effect.kind = "speed" THEN 14
    ELSE IF effect.kind = "slow" THEN 6
    ELSE 10

\* C8: power_multiplier returns 1.0 when no effect is set or now > expiry, and
\* otherwise 1.4 / 0.6 / 1.0 for speed / slow / bonus; a query after the expiry
\* clears the effect, a query before it keeps it; a second query right after
\* returns 1.0 again with no effect set
C8_Multiplier ==
    /\ [](hist.query.asked =>
            /\ hist.query.ret = ClaimedMultiplier(hist.query.before, hist.query.t)
            /\ (hist.query.before # NoPower /\ hist.query.t > hist.query.before.end)
                  => game.active_power = NoPower
            /\ (hist.query.before # NoPower /\ hist.query.t <= hist.query.before.end)
                  => game.active_power = hist.query.before)
    /\ [][(hist.query.asked /\ hist'.query.asked /\ game.active_power = NoPower)
            => (hist'.query.ret = 10 /\ game'.active_power = NoPower)]_vars

\* C8 witness: a speed effect applied at T is queried at T + D + 1: the answer
\* is 1.0 and the effect is gone
C8_Witness ==
    /\ hist.query.asked
    /\ hist.query.before.kind = "speed"
    /\ hist.query.t = hist.query.before.end + 1
    /\ hist.query.ret = 10
    /\ game.active_power = NoPower

\* the lifetime left at time t to the active effect, to each power-up on the
\* field and to the special food
Remaining(g, t) ==
    [ effect   |-> IF g.active_power = NoPower THEN 0 ELSE g.active_power.end - t,
      powerups |-> [i \in 1..Len(g.powerups) |-> g.powerups[i].spawn_time + POWERUP_TTL - t],
      special  |-> IF g.special_food = NoCell THEN 0
                   ELSE g.special_spawned_at + SPECIAL_FOOD_TTL - t ]

\* C11: time spent paused does not count toward a lifetime: while the game
\* stays paused, the active effect, every power-up on the field and the
\* special food keep the remaining lifetime they had
C11_PauseKeepsLifetimes ==
    [][(game.paused /\ game'.paused) => Remaining(game', now') = Remaining(game, now)]_vars

\* C12: once the main loop has received a quit request (running is False), no
\* further simulation step starts before the loop terminates
C12_NoStepAfterQuit ==
    [][~running => ~StepStarts]_vars

\* C13: a spawn always terminates: after a bounded number of failed attempts
\* (here MaxAttempts) the sampler is no longer sampling, it has given up and
\* the spawn is skipped
C13_SamplerGivesUp ==
    pc = "sampling" => hist.attempts < MaxAttempts

\* the pixels of two spans of a line, each from a over w pixels, meet
SpansMeet(a1, w1, a2, w2) == (a1..(a1 + w1 - 1)) \cap (a2..(a2 + w2 - 1)) # {}

\* the head is out of the playable field, on another segment of the snake, or
\* shares a pixel with a static or a moving obstacle
ClaimedCollision(g) ==
    LET h == g.snake[Len(g.snake)]
    IN  \/ h[1] < 0
        \/ h[1] >= WIDTH
        \/ h[2] < 2 * GRID
        \/ h[2] >= HEIGHT
        \/ \E i \in 1..(Len(g.snake) - 1) : g.snake[i] = h
        \/ \E i \in 1..Len(g.static_obstacles) :
              /\ SpansMeet(h[1], GRID, g.static_obstacles[i].x, g.static_obstacles[i].w)
              /\ SpansMeet(h[2], GRID, g.static_obstacles[i].y, g.static_obstacles[i].h)
        \/ \E i \in 1..Len(g.moving_obstacles) :
              /\ SpansMeet(h[1], GRID, g.moving_obstacles[i].x, g.moving_obstacles[i].w)
              /\ SpansMeet(h[2], GRID, g.moving_obstacles[i].y, GRID)

\* C14: check_collisions returns true when the head is out of bounds (x < 0,
\* x >= WIDTH, y < 2*GRID, y >= HEIGHT), equals another segment currently in
\* the snake, or overlaps a static or moving obstacle, and false exactly when
\* none of these holds
C14_CollisionTest ==
    pc = "collide_ret" => (hist.hit <=> ClaimedCollision(game))

\* C14 witness: a head in the scoreboard band (inside the window, above the
\* playable field) that touches no segment and no obstacle is reported
C14_Witness ==
    /\ pc = "collide_ret"
    /\ hist.hit
    /\ HeadOf(game) = <<0, GRID>>

\* C15: every simulation step consumes exactly 1/current_speed from the
\* accumulator, current_speed being the rate in force when that step starts
C15_StepConsumesCurrentRate ==
    [][StepStarts => step_timer' = RatSub(step_timer, <<1, current_fps(game, now).ret>>)]_vars

\* the rate of the level in halves of a step per second: base + (level-1)*1.5
LevelRate2(g) == 2 * FPS_BASE + 3 * (g.level - 1)

\* C16 as claimed: the step rate is clamp(BASE_RATE + (level-1)*LEVEL_RATE_STEP,
\* MIN_RATE, MAX_RATE) * multiplier, the clamp first and the multiplier
\* afterwards (both sides in twentieths of a step per second)
C16_ClampThenMultiply ==
    [][(pc = "fps_call" /\ pc' = "fps_ret") =>
          20 * hist'.fps = Max(2 * 6, Min(2 * MAX_FPS, LevelRate2(game)))
                             * ClaimedMultiplier(game.active_power, now)]_vars

\* C16 as amended: the step rate is the whole number of steps per second in
\* (BASE_RATE + (level-1)*LEVEL_RATE_STEP) * multiplier, the fraction dropped,
\* and that number clamped to MIN_RATE..MAX_RATE: the multiplier first, the
\* clamp last
C16_MultiplyThenClamp ==
    [][(pc = "fps_call" /\ pc' = "fps_ret") =>
          LET p == LevelRate2(game) * ClaimedMultiplier(game.active_power, now)
          IN  IF p < 20 * 6 THEN hist'.fps = 6
              ELSE IF p >= 20 * MAX_FPS THEN hist'.fps = MAX_FPS
              ELSE 20 * hist'.fps <= p /\ p < 20 * (hist'.fps + 1)]_vars

\* C16 witness: at level 13 (level rate 30) under a Speed effect the rate is
\* 30, not 42
C16_Witness ==
    /\ pc = "fps_ret"
    /\ game.level = 13
    /\ game.active_power # NoPower
    /\ game.active_power.kind = "speed"
    /\ hist.fps = MAX_FPS

\* pickup_powerup() is called and returns
Picked == pc = "pickup_call" /\ pc' = "pickup_ret"

\* the power-ups of g that lie on the cell of the head
UnderHead(g) == {i \in 1..Len(g.powerups) : g.powerups[i].pos = g.snake[Len(g.snake)]}

\* C17 as claimed: a power-up that the head overlaps is removed in the same
\* step, so none is left under the head, and the active effect becomes (its
\* kind, now + POWERUP_DURATION)
C17_OverlappedRemoved ==
    [][Picked =>
          /\ UnderHead(game') = {}
          /\ \A i \in UnderHead(game) :
                game'.active_power = [kind |-> game.powerups[i].kind, end |-> now + POWERUP_DURATION]]_vars

\* C17 as amended: the first power-up of the collection that the head overlaps
\* is removed in the same step, the others stay in order; the active effect
\* becomes (its kind, now + POWERUP_DURATION) whatever effect was active; the
\* score grows by exactly 3 if it is a Bonus and is unchanged otherwise; with
\* no power-up under the head nothing changes
C17_FirstOverlappedRemoved ==
    [][Picked =>
          IF UnderHead(game) = {} THEN game' = game
          ELSE LET i == CHOOSE k \in UnderHead(game) : \A j \in UnderHead(game) : k <= j
                   p == game.powerups[i]
               IN  /\ Len(game'.powerups) = Len(game.powerups) - 1
                   /\ \A j \in 1..(i - 1) : game'.powerups[j] = game.powerups[j]
                   /\ \A j \in i..(Len(game.powerups) - 1) : game'.powerups[j] = game.powerups[j + 1]
                   /\ game'.active_power = [kind |-> p.kind, end |-> now + POWERUP_DURATION]
                   /\ game'.score = game.score + (IF p.kind = "bonus" THEN 3 ELSE 0)
                   /\ game'.snake = game.snake]_vars

\* C17 witness: a Bonus picked up from under the head while a Speed effect was
\* running (the score went from 0 to 3), with a second power-up left on the
\* same cell
C17_Witness ==
    /\ pc = "pickup_ret"
    /\ game.active_power = [kind |-> "bonus", end |-> PickupAt + POWERUP_DURATION]
    /\ game.score = 3
    /\ Len(game.powerups) = 1
    /\ UnderHead(game) = {1}

\* a world update runs (at time now')
WorldUpdate == pc = "special" /\ now' # now

\* the world update makes a spawn attempt for the special food
SpawnAttempted == game'.last_special_check # game.last_special_check

\* C18: the special food is spawned only in a spawn attempt, and an attempt is
\* made only when none is present and more than SPECIAL_FOOD_EVERY seconds
\* have passed since the previous attempt (the construction, for the first);
\* a special food that is present and not eaten is kept by every world update
\* up to SPECIAL_FOOD_TTL ms after its spawn and removed by the first one
\* after that
C18_SpecialFoodTiming ==
    [][WorldUpdate =>
          /\ SpawnAttempted =>
                /\ game.special_food = NoCell
                /\ now' - game.last_special_check > SPECIAL_FOOD_EVERY * 1000
                /\ game'.last_special_check = now'
          /\ (game.special_food = NoCell /\ game'.special_food # NoCell) =>
                /\ SpawnAttempted
                /\ game'.special_spawned_at = now'
          /\ game.special_food # NoCell =>
                IF now' - game.special_spawned_at > SPECIAL_FOOD_TTL
                THEN game'.special_food = NoCell
                ELSE game'.special_food = game.special_food /\ ~SpawnAttempted]_vars

\* C18 witness: a special food that nobody ate has been removed by the world
\* update made SPECIAL_FOOD_TTL + 1 ms after its spawn
C18_Witness ==
    /\ pc = "special"
    /\ game.score = 0
    /\ game.special_food = NoCell
    /\ game.special_spawned_at > SPECIAL_FOOD_EVERY * 1000
    /\ now = game.special_spawned_at + SPECIAL_FOOD_TTL + 1

\* C19: the snake has at least 2 segments in every reachable state, between
\* the head append and the tail trim and right after a reset included
C19_AtLeastTwoSegments ==
    Len(game.snake) >= 2

\* C19 witness: a snake of 2 segments that has moved without eating is past
\* the tail trim with 2 segments again, after an earlier life-loss reset
C19_Witness ==
    /\ pc = "collide"
    /\ ~hist.ate
    /\ hist.len0 = 2
    /\ Len(game.snake) = 2
    /\ game.lives < LIVES_START

\* the segments of g are pairwise distinct, inside the playable field and
\* off every static obstacle
SnakeSound(g) ==
    /\ Cardinality(Range(g.snake)) = Len(g.snake)
    /\ \A c \in Range(g.snake) :
          /\ 0 <= c[1]
          /\ c[1] < WIDTH
          /\ 2 * GRID <= c[2]
          /\ c[2] < HEIGHT
          /\ \A o \in Range(g.static_obstacles) :
                \/ c[1] + GRID <= o.x
                \/ o.x + o.w <= c[1]
                \/ c[2] + GRID <= o.y
                \/ o.y + o.h <= c[2]

\* C20: after every completed simulation step, collision handling included,
\* the segments of the snake are pairwise distinct, every segment is inside
\* the playable bounds (0 <= x < WIDTH, 2*GRID <= y < HEIGHT), and none
\* overlaps a static obstacle
C20_SnakeSoundAfterStep ==
    StepHandled => SnakeSound(game)

\* C20 witness: a step on which the head entered the cell the tail had just
\* left is completed without a collision, the snake 4 segments long
C20_Witness ==
    /\ pc = "update"
    /\ ~hist.hit
    /\ Len(game.snake) >= 4
    /\ hist.head = hist.snake0[1]

\* every moving obstacle lies horizontally inside the field
MoversInField ==
    \A i \in 1..Len(game.moving_obstacles) :
        /\ game.moving_obstacles[i].x >= 0
        /\ game.moving_obstacles[i].x + game.moving_obstacles[i].w <= WIDTH

\* an update keeps the speed of every moving obstacle and does not flip a
\* velocity that the update before it flipped
MoversBounce ==
    \A i \in 1..Len(game.moving_obstacles) :
        /\ game'.moving_obstacles[i].dx \in {game.moving_obstacles[i].dx, -game.moving_obstacles[i].dx}
        /\ ~(hist.flipped[i] /\ hist'.flipped[i])

\* C21: after any number of updates every moving obstacle stays horizontally
\* inside the field (left >= 0 and right <= WIDTH), its speed never changes
\* in magnitude, and its velocity is never flipped on two consecutive updates
C21_MoverStaysInField ==
    /\ [](pc = "mover" => MoversInField)
    /\ [][pc = "mover" => MoversBounce]_vars

====
